---- MODULE Spec2Model ----
(***************************************************************************)
(* A model of pelican-arena's judge_stats.py: the ELO rankings computed    *)
(* from a reference vote column (compute_elo_rankings) and from the        *)
(* judges' majority (compute_consensus_elo), and the agreement tallies.    *)
(*                                                                         *)
(* Numbers.  Python floats are modelled in fixed point: a rating and an    *)
(* expected score are integers counting units of 1/SCALE, and every        *)
(* operation that rounds in floating point (the division by 400, the       *)
(* power 10 ** x, the reciprocal) rounds to the nearest unit here.  The    *)
(* two expected scores are computed by two separate expressions, as in     *)
(* the source, so that their sum is 1 only as far as rounding allows.      *)
(*                                                                         *)
(* Input.  The record list is the input of each call; a loop iteration     *)
(* draws the next record from Rows, so that a behaviour of the model is    *)
(* one call on one list of at most MaxRows records.                        *)
(***************************************************************************)
EXTENDS Integers, Sequences, FiniteSets, TLC

\* ------------------------------------------------------------------ bounds
NumComps == 3          \* competitors that may appear in a record
MaxRows == 3           \* records in one input list
MaxCalls == 2          \* calls the call counter tells apart

\* --------------------------------------------------------- program constants
INITIAL_ELO == 1500
K_FACTOR == 32

\* ----------------------------------------------------------- fixed point
SCALE == 10 ^ 4                    \* units per 1.0
LN10 == 23026                      \* ln(10) in units of 1/SCALE, rounded
ExpTerms == 2 * 4                   \* terms of the series for exp

Abs(x) == IF x >= 0 THEN x ELSE -x

\* a / b rounded to the nearest integer (b > 0), halves away from zero
RDiv(a, b) == IF a >= 0 THEN (2 * a + b) \div (2 * b)
              ELSE -((2 * (-a) + b) \div (2 * b))

\* exp(y), y and the result in units of 1/SCALE: the series sum y^k / k!
RECURSIVE ExpSeries(_, _, _, _)
ExpSeries(y, term, k, acc) ==
    IF k > ExpTerms THEN acc
    ELSE LET t == RDiv(term * y, SCALE * k)
         IN  ExpSeries(y, t, k + 1, acc + t)

ExpFix(y) == ExpSeries(y, SCALE, 1, SCALE)

\* a variant of Pow10Div400: the difference is divided by 200
Pow10Div400_By200(d) ==
    LET x == RDiv(d, 20)
        y == RDiv(x * LN10, 10 * SCALE)
    IN  ExpFix(y)

\* 10 ** (d / 400) for a rating difference d (units of 1/SCALE): the
\* exponent x = d / 400 in units of 1/(10*SCALE), then exp(x * ln 10)
Pow10Div400(d) ==
    LET x == RDiv(d, 40)
        y == RDiv(x * LN10, 10 * SCALE)
    IN  ExpFix(y)

\* a variant of ExpectedScore: the ratings are not looked at
ExpectedScore_Half(own, other) == SCALE \div 2

\* 1 / (1 + 10 ** ((other - own) / 400)), in units of 1/SCALE
ExpectedScore(own, other) == RDiv(SCALE * SCALE, SCALE + Pow10Div400(other - own))

\* ------------------------------------------------------------------ records
CompNames == <<"M1", "M2", "M3", "M4", "M5">>
Comps == {CompNames[i] : i \in 1..NumComps}

JudgeNames == {"j1", "j2"}
VoteColumns == {"human_winner"} \cup JudgeNames

\* the values a vote column holds when present: the reference vote is "a",
\* "b" or empty, a judge's vote is "a", "b" or "error"
ColumnVals(col) == IF col = "human_winner" THEN {"a", "b", ""} ELSE {"a", "b", "error"}
VoteVals == UNION {ColumnVals(col) : col \in VoteColumns}

MakeRow(a, b, votes) ==
    [k \in {"model_a", "model_b"} \cup DOMAIN votes |->
        IF k = "model_a" THEN a ELSE IF k = "model_b" THEN b ELSE votes[k]]

\* a record names two competitors and carries any subset of the vote columns
VoteMaps == {v \in UNION {[ks -> VoteVals] : ks \in SUBSET VoteColumns} :
                 \A k \in DOMAIN v : v[k] \in ColumnVals(k)}
Rows == {MakeRow(a, b, v) : a \in Comps, b \in Comps, v \in VoteMaps}

\* A call reads model_a, model_b and its own vote columns and no other key of
\* a record, so its records are drawn over the keys it reads.
RowsReading(cols) ==
    {MakeRow(a, b, v) : a \in Comps, b \in Comps,
                        v \in {m \in VoteMaps : DOMAIN m \subseteq cols}}

Range(s) == {s[i] : i \in 1..Len(s)}

NoRow == [model_a |-> "", model_b |-> ""]

\* row.get(col, "")
Get(row, col) == IF col \in DOMAIN row THEN row[col] ELSE ""

\* ------------------------------------------------------------- dictionaries
\* A dict is the sequence of its <<key, value>> items in insertion order.
Keys(d) == {d[i][1] : i \in 1..Len(d)}
Val(d, k) == d[CHOOSE i \in 1..Len(d) : d[i][1] = k][2]

\* d[k] = v
DictSet(d, k, v) ==
    IF k \in Keys(d)
    THEN [i \in 1..Len(d) |-> IF d[i][1] = k THEN <<k, v>> ELSE d[i]]
    ELSE Append(d, <<k, v>>)

\* a variant of DefaultTouch: a new key starts at the value stored last
DefaultTouch_LastRating(d, k) ==
    IF k \in Keys(d) THEN d
    ELSE Append(d, <<k, IF d = <<>> THEN INITIAL_ELO * SCALE ELSE d[Len(d)][2]>>)

\* defaultdict(lambda: INITIAL_ELO).__getitem__: a missing key is inserted
DefaultTouch(d, k) == IF k \in Keys(d) THEN d ELSE Append(d, <<k, INITIAL_ELO * SCALE>>)

\* ------------------------------------------------------------------- state
VARIABLES
    pc,             \* "start", "elo", "consensus" (inside the loop), "returned"
    winner_column,  \* compute_elo_rankings' parameter
    judge_columns,  \* compute_consensus_elo's parameter
    n,              \* records the loop of the current call has consumed
    elo_scores,     \* the defaultdict of the current call
    row,            \* the loop variable
    winner,         \* the vote resolved for row
    rating_a, rating_b, expected_a, expected_b,    \* locals of the loop body
    ret,            \* the mapping the last call returned
    encountered,    \* history: competitors named by the records consumed
    played,         \* history: competitors named by the records not skipped
    results,        \* the record list main loaded (SpecCalls)
    stats,          \* the agreement tallies the last call returned (SpecCalls)
    calls,          \* history: calls entered so far, counted up to MaxCalls
    inter_stats,    \* what compute_inter_judge_agreement returned (SpecCalls)
    table,          \* the rows print_elo_ranking printed (SpecCalls)
    matrix,         \* the grid print_inter_judge_agreement printed (SpecCalls)
    details,        \* the pair lines print_inter_judge_agreement printed (SpecCalls)
    program,        \* "batch_comp" (run_comparison) or "comp" (main) (SpecGen)
    models,         \* the configured models
    max_workers,    \* the size of the thread pool
    save_html,      \* comp's setting save_html
    raising,        \* per model, the step of generate_image that raises, if any
    future_map,     \* per model, the state of its future
    outcome,        \* per model, what its future holds once finished
    yielded,        \* the futures as_completed has yielded
    gen_results,    \* the list results of run_comparison / main
    gen_pc,         \* where run_comparison / main stands
    files,          \* the files written to output_dir
    summary,        \* the "models" entry of summary.json, <<>> before it is written
    viewer,         \* the models of index.html in row order, <<>> before it is written
    report,         \* <<successes, failures>>, <<>> before they are counted
    configured_judges,    \* the judges of judges_config.yaml (SpecJudge)
    judge_workers,        \* llm_judge's max_workers
    comparisons_csv,      \* the rows of the comparisons file
    comparisons,          \* what load_comparisons returned
    output_csv,           \* the output file: whether it exists, and its rows
    existing_results,     \* the keys load_existing_results returned
    pending_comparisons,  \* the comparisons main has to evaluate in this run
    idx,                  \* pending comparisons the loop of main is through with
    evaluated_count,      \* main's counter
    result,               \* what evaluate_comparison holds or returned last
    probe,                \* what evaluate_comparison found on disk
    futures,              \* per judge, the state and the value of its future
    judge_pc,             \* where main stands
    runs,                 \* history: runs of main started so far
    judged,               \* history: keys handed to the judges in this run
    appended,             \* history: keys of the rows appended in this run
    skipped,              \* history: keys skipped in the last run
    written               \* history: rows handed to append_result_to_csv

vars == <<pc, winner_column, judge_columns, n, elo_scores, row, winner,
          rating_a, rating_b, expected_a, expected_b, ret, encountered, played,
          results, stats, calls, inter_stats, table, matrix, details,
          program, models, max_workers, save_html, raising, future_map, outcome,
          yielded, gen_results, gen_pc, files, summary, viewer, report,
          configured_judges, judge_workers, comparisons_csv, comparisons, output_csv,
          existing_results, pending_comparisons, idx, evaluated_count, result,
          probe, futures, judge_pc, runs, judged, appended, skipped, written>>

\* the state of llm_judge
judgevars == <<configured_judges, judge_workers, comparisons_csv, comparisons, output_csv,
               existing_results, pending_comparisons, idx, evaluated_count, result,
               probe, futures, judge_pc, runs, judged, appended, skipped, written>>

\* the state of the generation scripts
genvars == <<program, models, max_workers, save_html, raising, future_map, outcome,
             yielded, gen_results, gen_pc, files, summary, viewer, report>>

\* what the loops leave alone
outvars == <<results, stats, inter_stats, table, matrix, details, genvars, judgevars>>

\* what the calls on a whole list write besides ret and stats
printvars == <<inter_stats, table, matrix, details>>

\* what the calls on a whole record list leave alone
loopvars == <<n, elo_scores, row, winner, rating_a, rating_b, expected_a,
              expected_b, encountered, played, genvars, judgevars>>

locals == <<rating_a, rating_b, expected_a, expected_b>>

\* the lists of judge columns a caller may pass
JudgeLists == {<<>>, <<"j1">>, <<"j1", "j2">>}

\* the columns a caller may pass as the winner column
WinnerColumns == {"human_winner", "j1"}

\* ------------------------------------------------------- compute_elo_rankings
\* a variant of EloUpdate: model_b is scored like model_a
EloUpdate_SameActual(scores, r, w) ==
    LET model_a == r.model_a
        model_b == r.model_b
        d1 == DefaultTouch(scores, model_a)
        ra == Val(d1, model_a)
        d2 == DefaultTouch(d1, model_b)
        rb == Val(d2, model_b)
        ea == ExpectedScore(ra, rb)
        eb == ExpectedScore(rb, ra)
        actual_a == IF w = "a" THEN SCALE ELSE 0
        d3 == DictSet(d2, model_a, ra + K_FACTOR * (actual_a - ea))
        d4 == DictSet(d3, model_b, rb + K_FACTOR * (actual_a - eb))
    IN  [skipped |-> FALSE, scores |-> d4, rating_a |-> ra, rating_b |-> rb,
         expected_a |-> ea, expected_b |-> eb]

\* a variant of EloUpdate: the two ratings are stored in the other order,
\* model_a's last
EloUpdate_WriteALast(scores, r, w) ==
    LET model_a == r.model_a
        model_b == r.model_b
        d1 == DefaultTouch(scores, model_a)
        ra == Val(d1, model_a)
        d2 == DefaultTouch(d1, model_b)
        rb == Val(d2, model_b)
        ea == ExpectedScore(ra, rb)
        eb == ExpectedScore(rb, ra)
        actual_a == IF w = "a" THEN SCALE ELSE 0
        actual_b == IF w = "a" THEN 0 ELSE SCALE
        d3 == DictSet(d2, model_b, rb + K_FACTOR * (actual_b - eb))
        d4 == DictSet(d3, model_a, ra + K_FACTOR * (actual_a - ea))
    IN  [skipped |-> FALSE, scores |-> d4, rating_a |-> ra, rating_b |-> rb,
         expected_a |-> ea, expected_b |-> eb]

\* Lines 76-92: the ratings are fetched (a missing competitor enters the
\* defaultdict, model_a first), the expected scores computed, and both
\* ratings stored, model_b's last.
EloUpdate(scores, r, w) ==
    LET model_a == r.model_a
        model_b == r.model_b
        d1 == DefaultTouch(scores, model_a)
        ra == Val(d1, model_a)
        d2 == DefaultTouch(d1, model_b)
        rb == Val(d2, model_b)
        ea == ExpectedScore(ra, rb)
        eb == ExpectedScore(rb, ra)
        actual_a == IF w = "a" THEN SCALE ELSE 0
        actual_b == IF w = "a" THEN 0 ELSE SCALE
        d3 == DictSet(d2, model_a, ra + K_FACTOR * (actual_a - ea))
        d4 == DictSet(d3, model_b, rb + K_FACTOR * (actual_b - eb))
    IN  [skipped |-> FALSE, scores |-> d4, rating_a |-> ra, rating_b |-> rb,
         expected_a |-> ea, expected_b |-> eb]

\* Line 71: the vote of the record is row.get(winner_column, "")
EloWinner(r, col) == Get(r, col)

\* a variant of EloBody: the ratings are fetched before the vote is looked at
EloBody_FetchFirst(scores, r, w) ==
    IF w \notin {"a", "b"}
    THEN [skipped |-> TRUE,
          scores |-> DefaultTouch(DefaultTouch(scores, r.model_a), r.model_b)]
    ELSE EloUpdate(scores, r, w)

\* a variant of EloBody: any vote other than "a" counts as "b"
EloBody_NoSkip(scores, r, w) == EloUpdate(scores, r, w)

\* Lines 73-92: a record whose vote is neither "a" nor "b" is passed over
\* before any rating is fetched
EloBody(scores, r, w) ==
    IF w \notin {"a", "b"}
    THEN [skipped |-> TRUE, scores |-> scores]
    ELSE EloUpdate(scores, r, w)

\* ------------------------------------------------------ get_consensus_winner
\* Lines 103-111: one pass over the judge columns counting the votes equal to v
RECURSIVE TallyVotes(_, _, _)
TallyVotes(r, judges, v) ==
    IF judges = <<>> THEN 0
    ELSE (IF Get(r, Head(judges)) = v THEN 1 ELSE 0) + TallyVotes(r, Tail(judges), v)

\* a variant of get_consensus_winner: a tie goes to "a"
get_consensus_winner_TieA(r, judges) ==
    IF TallyVotes(r, judges, "a") >= TallyVotes(r, judges, "b") THEN "a" ELSE "b"

\* Lines 113-118
get_consensus_winner(r, judges) ==
    LET votes_a == TallyVotes(r, judges, "a")
        votes_b == TallyVotes(r, judges, "b")
    IN  IF votes_a > votes_b THEN "a"
        ELSE IF votes_b > votes_a THEN "b"
        ELSE ""

\* ------------------------------------------------------ compute_consensus_elo
\* a variant of ConsensusUpdate: the copy scores model_b like model_a
ConsensusUpdate_Drifted(scores, r, w) == EloUpdate_SameActual(scores, r, w)

\* Lines 135-151: the second copy of the update
ConsensusUpdate(scores, r, w) ==
    LET model_a == r.model_a
        model_b == r.model_b
        d1 == DefaultTouch(scores, model_a)
        ra == Val(d1, model_a)
        d2 == DefaultTouch(d1, model_b)
        rb == Val(d2, model_b)
        ea == ExpectedScore(ra, rb)
        eb == ExpectedScore(rb, ra)
        actual_a == IF w = "a" THEN SCALE ELSE 0
        actual_b == IF w = "a" THEN 0 ELSE SCALE
        d3 == DictSet(d2, model_a, ra + K_FACTOR * (actual_a - ea))
        d4 == DictSet(d3, model_b, rb + K_FACTOR * (actual_b - eb))
    IN  [skipped |-> FALSE, scores |-> d4, rating_a |-> ra, rating_b |-> rb,
         expected_a |-> ea, expected_b |-> eb]

\* Lines 132-151
ConsensusBody(scores, r, w) ==
    IF w \notin {"a", "b"}
    THEN [skipped |-> TRUE, scores |-> scores]
    ELSE ConsensusUpdate(scores, r, w)

\* evaluate_comparison returned None, or has not returned yet
None == [none |-> TRUE, fields |-> <<>>]

\* nothing read from disk
NoProbe == [prompt |-> <<>>, image_a |-> "unchecked", image_b |-> "unchecked"]

\* an output file that does not exist
NoFile == [exists |-> FALSE, rows |-> <<>>]

\* llm_judge before main has done anything
JudgeRest ==
    /\ comparisons = <<>>
    /\ output_csv = NoFile
    /\ existing_results = {}
    /\ pending_comparisons = <<>>
    /\ idx = 0
    /\ evaluated_count = 0
    /\ result = None
    /\ probe = NoProbe
    /\ futures = <<>>
    /\ runs = 0
    /\ judged = <<>>
    /\ appended = <<>>
    /\ skipped = {}
    /\ written = <<>>

\* llm_judge is not run
JudgeIdle ==
    /\ configured_judges = <<>>
    /\ judge_workers = 0
    /\ comparisons_csv = <<>>
    /\ judge_pc = ""
    /\ JudgeRest

\* no generation script has run
GenIdle ==
    /\ program = ""
    /\ models = <<>>
    /\ max_workers = 0
    /\ save_html = FALSE
    /\ raising = <<>>
    /\ future_map = <<>>
    /\ outcome = <<>>
    /\ yielded = {}
    /\ gen_results = <<>>
    /\ gen_pc = ""
    /\ files = {}
    /\ summary = <<>>
    /\ viewer = <<>>
    /\ report = <<>>

\* ------------------------------------------------------------------ actions
Init ==
    /\ GenIdle
    /\ JudgeIdle
    /\ pc = "start"
    /\ winner_column = ""
    /\ judge_columns = <<>>
    /\ n = 0
    /\ elo_scores = <<>>
    /\ row = NoRow
    /\ winner = ""
    /\ rating_a = 0 /\ rating_b = 0 /\ expected_a = 0 /\ expected_b = 0
    /\ ret = <<>>
    /\ encountered = {}
    /\ played = {}
    /\ results = <<>>
    /\ stats = <<>>
    /\ calls = 0
    /\ inter_stats = <<>>
    /\ table = <<>>
    /\ matrix = <<>>
    /\ details = <<>>

\* a variant of Enter: the mapping of the call before is kept
Enter_KeepScores(fn) ==
    /\ pc \in {"start", "returned"}
    /\ pc' = fn
    /\ n' = 0
    /\ elo_scores' = elo_scores
    /\ row' = NoRow
    /\ winner' = ""
    /\ rating_a' = 0 /\ rating_b' = 0 /\ expected_a' = 0 /\ expected_b' = 0
    /\ encountered' = {}
    /\ played' = {}
    /\ ret' = <<>>
    /\ calls' = IF calls < MaxCalls THEN calls + 1 ELSE calls
    /\ UNCHANGED outvars

\* a call starts with a fresh defaultdict (lines 66, 125)
Enter(fn) ==
    /\ pc \in {"start", "returned"}
    /\ pc' = fn
    /\ n' = 0
    /\ elo_scores' = <<>>
    /\ row' = NoRow
    /\ winner' = ""
    /\ rating_a' = 0 /\ rating_b' = 0 /\ expected_a' = 0 /\ expected_b' = 0
    /\ encountered' = {}
    /\ played' = {}
    /\ ret' = <<>>
    /\ calls' = IF calls < MaxCalls THEN calls + 1 ELSE calls
    /\ UNCHANGED outvars

CallElo ==
    /\ Enter("elo")
    /\ winner_column' \in WinnerColumns
    /\ judge_columns' = <<>>

CallConsensus ==
    /\ Enter("consensus")
    /\ judge_columns' \in JudgeLists
    /\ winner_column' = ""

\* One iteration of either loop: the record r is consumed, its vote w is
\* resolved and the loop body has run with the result u.
Iterate(r, w, u) ==
    /\ n' = n + 1
    /\ row' = r
    /\ winner' = w
    /\ elo_scores' = u.scores
    /\ IF u.skipped
       THEN UNCHANGED locals
       ELSE /\ rating_a' = u.rating_a
            /\ rating_b' = u.rating_b
            /\ expected_a' = u.expected_a
            /\ expected_b' = u.expected_b
    /\ encountered' = encountered \cup {r.model_a, r.model_b}
    /\ played' = IF w \in {"a", "b"} THEN played \cup {r.model_a, r.model_b} ELSE played
    /\ UNCHANGED <<pc, winner_column, judge_columns, ret, calls>>
    /\ UNCHANGED outvars

\* lines 68-92
EloIteration ==
    /\ pc = "elo"
    /\ n < MaxRows
    /\ \E r \in RowsReading({winner_column}) :
          LET w == EloWinner(r, winner_column)
          IN  \E u \in {EloBody(elo_scores, r, w)} : Iterate(r, w, u)

\* lines 127-151
ConsensusIteration ==
    /\ pc = "consensus"
    /\ n < MaxRows
    /\ \E r \in RowsReading(Range(judge_columns)) :
          LET w == get_consensus_winner(r, judge_columns)
          IN  \E u \in {ConsensusBody(elo_scores, r, w)} : Iterate(r, w, u)

\* lines 94, 153: return dict(elo_scores) once the records are exhausted
Return ==
    /\ pc \in {"elo", "consensus"}
    /\ pc' = "returned"
    /\ ret' = elo_scores
    /\ UNCHANGED <<winner_column, judge_columns, n, elo_scores, row, winner,
                   locals, encountered, played, calls>>
    /\ UNCHANGED outvars

Next == CallElo \/ CallConsensus \/ EloIteration \/ ConsensusIteration \/ Return

Spec == Init /\ [][Next]_vars


\* ==================================================== calls on a whole list
\* The same loops as functions of the record list: what a call returns.

\* lines 66-94
RECURSIVE EloLoop(_, _, _)
EloLoop(scores, rs, col) ==
    IF rs = <<>> THEN scores
    ELSE EloLoop(EloBody(scores, Head(rs), EloWinner(Head(rs), col)).scores,
                 Tail(rs), col)

\* a variant of compute_elo_rankings: the mapping starts with a competitor
compute_elo_rankings_Seeded(rs, col) ==
    EloLoop(<<<<"M1", INITIAL_ELO * SCALE>>>>, rs, col)

\* line 66: the mapping starts empty
compute_elo_rankings(rs, col) == EloLoop(<<>>, rs, col)

\* lines 125-153
RECURSIVE ConsensusLoop(_, _, _)
ConsensusLoop(scores, rs, judges) ==
    IF rs = <<>> THEN scores
    ELSE ConsensusLoop(
             ConsensusBody(scores, Head(rs), get_consensus_winner(Head(rs), judges)).scores,
             Tail(rs), judges)

compute_consensus_elo(rs, judges) == ConsensusLoop(<<>>, rs, judges)

\* a variant of ValidPair: the judge's vote is not looked at
ValidPair_ReferenceOnly(v1, v2) == v1 \in {"a", "b"}

\* line 176: only valid comparisons count
ValidPair(v1, v2) == v1 \in {"a", "b"} /\ v2 \in {"a", "b"}

\* lines 171-179: the pass over the records for one judge, <<agreements, total>>
RECURSIVE AgreementLoop(_, _, _, _)
AgreementLoop(rs, judge, agreements, total) ==
    IF rs = <<>> THEN <<agreements, total>>
    ELSE LET human_winner == Get(Head(rs), "human_winner")
             judge_winner == Get(Head(rs), judge)
         IN  IF ValidPair(human_winner, judge_winner)
             THEN AgreementLoop(Tail(rs), judge,
                                IF human_winner = judge_winner
                                THEN agreements + 1 ELSE agreements,
                                total + 1)
             ELSE AgreementLoop(Tail(rs), judge, agreements, total)

\* a variant of Percentage: no valid comparison counts as full agreement
Percentage_EmptyIsFull(agreements, total) ==
    IF total > 0 THEN RDiv(agreements * SCALE, total) * 100 ELSE 100 * SCALE

\* a variant of Percentage: the fraction is not scaled to a percentage
Percentage_Fraction(agreements, total) ==
    IF total > 0 THEN RDiv(agreements * SCALE, total) ELSE 0

\* lines 181, 213: (agreements / total * 100) if total > 0 else 0.0, in units
\* of 1/SCALE
Percentage(agreements, total) ==
    IF total > 0 THEN RDiv(agreements * SCALE, total) * 100 ELSE 0

\* lines 165-184
RECURSIVE StatsLoop(_, _, _)
StatsLoop(st, rs, judges) ==
    IF judges = <<>> THEN st
    ELSE LET t == AgreementLoop(rs, Head(judges), 0, 0)
         IN  StatsLoop(DictSet(st, Head(judges), <<t[1], t[2], Percentage(t[1], t[2])>>),
                       rs, Tail(judges))

compute_agreement_stats(rs, judges) == StatsLoop(<<>>, rs, judges)

\* -------------------------------------------- compute_inter_judge_agreement
\* a variant of InterVote: the reference vote stands in for the first judge
InterVote_Reference(r, judge_a, judge) ==
    IF judge = judge_a THEN Get(r, "human_winner") ELSE Get(r, judge)

\* lines 204-205: vote_a = row.get(judge_a, ""), vote_b = row.get(judge_b, "")
InterVote(r, judge_a, judge) == Get(r, judge)

\* lines 203-211: the pass over the records for one pair, <<agreements, total>>
RECURSIVE InterLoop(_, _, _, _, _)
InterLoop(rs, judge_a, judge_b, agreements, total) ==
    IF rs = <<>> THEN <<agreements, total>>
    ELSE LET vote_a == InterVote(Head(rs), judge_a, judge_a)
             vote_b == InterVote(Head(rs), judge_a, judge_b)
         IN  IF ValidPair(vote_a, vote_b)
             THEN InterLoop(Tail(rs), judge_a, judge_b,
                            IF vote_a = vote_b THEN agreements + 1 ELSE agreements,
                            total + 1)
             ELSE InterLoop(Tail(rs), judge_a, judge_b, agreements, total)

\* a variant of InnerJudges: the judge itself is left out
InnerJudges_NoSelf(judges, i) == SubSeq(judges, i + 1, Len(judges))

\* line 199: judge_columns[i:], the judge itself included
InnerJudges(judges, i) == SubSeq(judges, i, Len(judges))

\* a variant of StorePair: only the pair as computed is stored
StorePair_NoMirror(st, judge_a, judge_b, t) == DictSet(st, <<judge_a, judge_b>>, t)

\* lines 214-216: the tally is stored under (judge_a, judge_b) and mirrored
StorePair(st, judge_a, judge_b, t) ==
    LET s1 == DictSet(st, <<judge_a, judge_b>>, t)
    IN  IF judge_a # judge_b THEN DictSet(s1, <<judge_b, judge_a>>, t) ELSE s1

\* lines 199-216: the inner loop over judge_b
RECURSIVE InnerLoop(_, _, _, _)
InnerLoop(st, rs, judge_a, inner) ==
    IF inner = <<>> THEN st
    ELSE LET t == InterLoop(rs, judge_a, Head(inner), 0, 0)
         IN  InnerLoop(StorePair(st, judge_a, Head(inner),
                                 <<t[1], t[2], Percentage(t[1], t[2])>>),
                       rs, judge_a, Tail(inner))

\* lines 198-216: the outer loop over enumerate(judge_columns)
RECURSIVE OuterLoop(_, _, _, _)
OuterLoop(st, rs, judges, i) ==
    IF i > Len(judges) THEN st
    ELSE OuterLoop(InnerLoop(st, rs, judges[i], InnerJudges(judges, i)),
                   rs, judges, i + 1)

compute_inter_judge_agreement(rs, judges) == OuterLoop(<<>>, rs, judges, 1)

\* -------------------------------------------- print_inter_judge_agreement
\* stats.get(key, (0, 0, 0.0))
StatsGet(st, key) == IF key \in Keys(st) THEN Val(st, key) ELSE <<0, 0, 0>>

\* f"{percentage:.1f}": the percentage in tenths
Tenths(percentage) == RDiv(percentage, SCALE \div 10)

\* lines 293-298: one row per judge, one cell per judge
PrintedMatrix(st, judges) ==
    [i \in 1..Len(judges) |->
        [j \in 1..Len(judges) |-> Tenths(StatsGet(st, <<judges[i], judges[j]>>)[3])]]

\* lines 306-314: the pairs i < j in loop order, a key printed once (the
\* judge names of the model are shorter than the 20 characters kept)
RECURSIVE PrintedDetails(_, _, _, _, _)
PrintedDetails(st, judges, i, j, printed) ==
    IF i > Len(judges) THEN <<>>
    ELSE IF j > Len(judges) THEN PrintedDetails(st, judges, i + 1, 1, printed)
    ELSE LET key == <<judges[i], judges[j]>>
             t == StatsGet(st, key)
         IN  IF i < j /\ key \notin printed
             THEN <<<<key[1], key[2], Tenths(t[3]), t[1], t[2]>>>>
                      \o PrintedDetails(st, judges, i, j + 1, printed \cup {key})
             ELSE PrintedDetails(st, judges, i, j + 1, printed)

\* lines 272-274: nothing is printed without tallies or without judges
HasData(st, judges) == st # <<>> /\ judges # <<>>

\* --------------------------------------------------------- get_judge_columns
\* The keys of a record stand in the order of the CSV header, which llm_judge
\* writes as folder_path, model_a, model_b, human_winner and the judges.
FieldOrder == <<"folder_path", "model_a", "model_b", "human_winner", "j1", "j2", "j3">>

\* list(row.keys())
RowKeys(r) == SelectSeq(FieldOrder, LAMBDA k : k \in DOMAIN r)

\* a variant of non_judge_cols: the reference vote is not set aside
non_judge_cols_NoReference == {"folder_path", "model_a", "model_b"}

\* line 49
non_judge_cols == {"folder_path", "model_a", "model_b", "human_winner"}

\* lines 45-50: the keys of the first record that are no reserved name
get_judge_columns(rs) ==
    IF rs = <<>> THEN <<>>
    ELSE SelectSeq(RowKeys(rs[1]), LAMBDA col : col \notin non_judge_cols)

\* ------------------------------------------------------------- exceptions
\* a variant of Required: every function reads the reference vote as
\* row["human_winner"]
Required_Reference(fn) ==
    IF fn \in {"elo", "consensus"}
    THEN {"model_a", "model_b", "human_winner"} ELSE {"human_winner"}

\* The keys a function reads as row[...]: model_a and model_b in the two
\* rating loops (lines 69-70, 128-129); every other read is row.get(key, "")
\* (lines 71, 105, 172-173, 204-205)
Required(fn) == IF fn \in {"elo", "consensus"} THEN {"model_a", "model_b"} ELSE {}

\* row[key] raises KeyError on the first record without the key
Raises(fn, rs) == \E i \in 1..Len(rs) : ~(Required(fn) \subseteq DOMAIN rs[i])

\* ---------------------------------------------------------- print_elo_ranking
\* a variant of InsertDesc: an item goes before the items equal to it
InsertDesc_BeforeEqual(sorted, item) ==
    LET before == SelectSeq(sorted, LAMBDA x : x[2] > item[2])
        after == SelectSeq(sorted, LAMBDA x : x[2] <= item[2])
    IN  before \o <<item>> \o after

\* sorted(..., key=lambda x: x[1], reverse=True) keeps equal items in their
\* order: an item goes behind the items that are greater or equal
InsertDesc(sorted, item) ==
    LET before == SelectSeq(sorted, LAMBDA x : x[2] >= item[2])
        after == SelectSeq(sorted, LAMBDA x : x[2] < item[2])
    IN  before \o <<item>> \o after

\* line 232: sorted_models
RECURSIVE SortItems(_, _)
SortItems(items, sorted) ==
    IF items = <<>> THEN sorted
    ELSE SortItems(Tail(items), InsertDesc(sorted, Head(items)))

\* lines 227-238: nothing is listed for an empty mapping; a row is the rank,
\* the model and f"{elo:.1f}", the rating in tenths
print_elo_ranking(scores) ==
    LET sorted_models == SortItems(scores, <<>>)
    IN  [k \in 1..Len(sorted_models) |->
            <<k, sorted_models[k][1], Tenths(sorted_models[k][2])>>]

\* ------------------------------------------------------------ record lists
MaxListRows == 2       \* records in a list passed to a whole call
NumListComps == 4      \* competitors in the lists of reference votes

ListComps == {CompNames[i] : i \in 1..NumListComps}

SeqsUpTo(S, k) == UNION {[1..m -> S] : m \in 0..k}

\* records carrying a reference vote (or none) and no judge column
ReferenceRows ==
    {MakeRow(a, b, v) : a \in ListComps, b \in ListComps,
                        v \in {m \in VoteMaps : DOMAIN m \subseteq {"human_winner"}}}

\* records carrying judge votes and no reference vote
JudgeRows == RowsReading(JudgeNames)

\* records of one pair carrying any of the vote columns
VoteRows == {MakeRow("M1", "M2", v) : v \in VoteMaps}

\* records of one pair carrying votes of three judges and no reference vote
InterJudgeNames == JudgeNames \cup {"j3"}
InterRows ==
    {MakeRow("M1", "M2", v) :
        v \in UNION {[ks -> {"a", "b", "error"}] : ks \in SUBSET InterJudgeNames}}

\* records as load_results reads them from the file llm_judge writes: every
\* column of the header is present
CsvRows ==
    {MakeRow("M1", "M2", v) :
        v \in {m \in [{"folder_path"} \cup VoteColumns -> VoteVals \cup {"f1"}] :
                  /\ m["folder_path"] = "f1"
                  /\ \A k \in VoteColumns : m[k] \in ColumnVals(k)}}

\* records a caller may pass that lack fields, the competitors among them
PartialRows ==
    {[k \in ks |-> IF k \in {"model_a", "model_b"} THEN "M1" ELSE "a"] :
        ks \in SUBSET {"model_a", "model_b", "human_winner", "j1"}}

ResultLists ==
    SeqsUpTo(ReferenceRows, MaxListRows) \cup SeqsUpTo(JudgeRows, MaxListRows)
        \cup SeqsUpTo(VoteRows, MaxListRows) \cup SeqsUpTo(InterRows, MaxListRows)
        \cup SeqsUpTo(CsvRows, MaxListRows) \cup SeqsUpTo(PartialRows, MaxListRows)

\* the judge lists a caller may pass to a whole call
CallJudgeLists == JudgeLists \cup {<<"j2", "j1">>}

\* a variant of RowAfterGet: the default is stored in the record, as
\* setdefault would
RowAfterGet_SetDefault(r, col) ==
    IF col \in DOMAIN r THEN r
    ELSE [k \in DOMAIN r \cup {col} |-> IF k = col THEN "" ELSE r[k]]

\* row.get(col, "") (lines 71, 107, 172-173, 204-205) returns the default for
\* a missing key without storing it: the record after the read
RowAfterGet(r, col) == r

\* the record after the reads of one loop iteration
RECURSIVE RowAfterGets(_, _)
RowAfterGets(r, cols) ==
    IF cols = <<>> THEN r
    ELSE RowAfterGets(RowAfterGet(r, Head(cols)), Tail(cols))

\* the record list after a call that reads the columns cols of every record;
\* the loops iterate over the list and never assign to it
RecordsAfter(rs, cols) == [i \in 1..Len(rs) |-> RowAfterGets(rs[i], cols)]

\* main passes on the list get_judge_columns returned (lines 333, 343-351);
\* another caller passes one of lists
Passed(lists) == IF pc = "columns_done" THEN {judge_columns} ELSE lists

InitCalls ==
    /\ GenIdle
    /\ JudgeIdle
    /\ pc = "start"
    /\ results \in ResultLists
    /\ winner_column = ""
    /\ judge_columns = <<>>
    /\ n = 0
    /\ elo_scores = <<>>
    /\ row = NoRow
    /\ winner = ""
    /\ rating_a = 0 /\ rating_b = 0 /\ expected_a = 0 /\ expected_b = 0
    /\ ret = <<>>
    /\ encountered = {}
    /\ played = {}
    /\ stats = <<>>
    /\ calls = 0
    /\ inter_stats = <<>>
    /\ table = <<>>
    /\ matrix = <<>>
    /\ details = <<>>

\* human_elo = compute_elo_rankings(results, ...); print_elo_ranking(...)
\* (lines 339-340); a KeyError ends the call without a result
RunElo ==
    /\ pc = "start"
    /\ \E col \in WinnerColumns :
          /\ winner_column' = col
          /\ IF Raises("elo", results)
             THEN pc' = "elo_raised" /\ UNCHANGED <<ret, table, results>>
             ELSE /\ pc' = "elo_done"
                  /\ ret' = compute_elo_rankings(results, col)
                  /\ table' = print_elo_ranking(ret')
                  /\ results' = RecordsAfter(results, <<col>>)
    /\ UNCHANGED <<judge_columns, stats, loopvars, calls,
                   inter_stats, matrix, details>>

\* consensus_elo = compute_consensus_elo(results, judge_columns);
\* print_elo_ranking(...) (lines 343-344)
RunConsensus ==
    /\ pc \in {"start", "columns_done"}
    /\ \E judges \in Passed(CallJudgeLists) :
          /\ judge_columns' = judges
          /\ IF Raises("consensus", results)
             THEN pc' = "consensus_raised" /\ UNCHANGED <<ret, table, results>>
             ELSE /\ pc' = "consensus_done"
                  /\ ret' = compute_consensus_elo(results, judges)
                  /\ table' = print_elo_ranking(ret')
                  /\ results' = RecordsAfter(results, judges)
    /\ UNCHANGED <<winner_column, stats, loopvars, calls,
                   inter_stats, matrix, details>>

\* agreement_stats = compute_agreement_stats(results, judge_columns) (line 347)
RunAgreement ==
    /\ pc \in {"start", "columns_done"}
    /\ \E judges \in Passed(CallJudgeLists) :
          /\ judge_columns' = judges
          /\ IF Raises("agreement", results)
             THEN pc' = "agreement_raised" /\ UNCHANGED <<stats, results>>
             ELSE /\ pc' = "agreement_done"
                  /\ stats' = compute_agreement_stats(results, judges)
                  /\ results' = RecordsAfter(results, <<"human_winner">> \o judges)
    /\ UNCHANGED <<winner_column, ret, loopvars, calls, printvars>>

\* the judge lists passed to the inter-judge call
InterJudgeLists ==
    CallJudgeLists \cup {<<"j1", "j1">>, <<"j1", "j2", "j3">>, <<"j3", "j1", "j2">>}

\* inter_judge_stats = compute_inter_judge_agreement(results, judge_columns);
\* print_inter_judge_agreement(inter_judge_stats, judge_columns) (lines 350-351)
RunInterJudge ==
    /\ pc \in {"start", "columns_done"}
    /\ \E judges \in Passed(InterJudgeLists) :
          /\ judge_columns' = judges
          /\ IF Raises("inter", results)
             THEN pc' = "inter_raised"
                  /\ UNCHANGED <<inter_stats, matrix, details, results>>
             ELSE LET st == compute_inter_judge_agreement(results, judges)
                  IN  /\ pc' = "inter_done"
                      /\ results' = RecordsAfter(results, judges)
                      /\ inter_stats' = st
                      /\ matrix' = IF HasData(st, judges)
                                   THEN PrintedMatrix(st, judges) ELSE <<>>
                      /\ details' = IF HasData(st, judges)
                                    THEN PrintedDetails(st, judges, 1, 1, {}) ELSE <<>>
    /\ UNCHANGED <<winner_column, ret, stats, loopvars, calls, table>>

\* judge_columns = get_judge_columns(results) (line 333)
RunJudgeColumns ==
    /\ pc = "start"
    /\ judge_columns' = get_judge_columns(results)
    /\ pc' = "columns_done"
    /\ UNCHANGED <<winner_column, ret, results, stats, loopvars, calls, printvars>>

NextCalls == RunElo \/ RunConsensus \/ RunAgreement \/ RunInterJudge \/ RunJudgeColumns

SpecCalls == InitCalls /\ [][NextCalls]_vars

\* ================================================ batch_comp.py and comp.py
\* run_comparison (batch_comp) and main (comp) submit one generate_image task
\* per configured model to a thread pool, collect the results as the tasks
\* complete, and then write the summary and the viewer.

MaxModels == 3         \* configured models
MaxWorkers == 2        \* size of the thread pool

\* model names, in alphabetical order
ModelNames == <<"m1", "m2", "m3", "m4">>
Rank(m) == CHOOSE i \in 1..Len(ModelNames) : ModelNames[i] = m

\* the configured lists: at least one model, each once, in any order
ModelLists ==
    {ms \in UNION {[1..k -> {ModelNames[i] : i \in 1..MaxModels}] : k \in 1..MaxModels} :
        \A i \in DOMAIN ms, j \in DOMAIN ms : ms[i] = ms[j] => i = j}

\* what may raise inside generate_image: the provider call (get_response) or
\* the rendering (cairosvg.svg2png)
RaiseSteps == {"none", "provider", "render"}

\* the state of the aggregation script while a generation script runs
AggIdle ==
    /\ pc = "start"
    /\ winner_column = ""
    /\ judge_columns = <<>>
    /\ n = 0
    /\ elo_scores = <<>>
    /\ row = NoRow
    /\ winner = ""
    /\ rating_a = 0 /\ rating_b = 0 /\ expected_a = 0 /\ expected_b = 0
    /\ ret = <<>>
    /\ encountered = {}
    /\ played = {}
    /\ results = <<>>
    /\ stats = <<>>
    /\ calls = 0
    /\ inter_stats = <<>>
    /\ table = <<>>
    /\ matrix = <<>>
    /\ details = <<>>

aggvars == <<pc, winner_column, judge_columns, n, elo_scores, row, winner,
             rating_a, rating_b, expected_a, expected_b, ret, encountered, played,
             results, stats, calls, inter_stats, table, matrix, details>>

\* what the steps of a generation script leave alone
genconfig == <<program, models, max_workers, save_html, raising, judgevars>>

\* a variant of generate_image: an exception leaves the function
generate_image_Uncaught(model, step) ==
    IF step = "none" THEN [model |-> model, status |-> "success"]
    ELSE [model |-> model, status |-> "raised"]

\* generate_image (batch_comp lines 84-104, comp lines 94-118): any Exception
\* raised by the provider call or the rendering becomes an "error" result
generate_image(model, step) ==
    IF step = "none" THEN [model |-> model, status |-> "success"]
    ELSE [model |-> model, status |-> "error"]

\* the files generate_image has written when it returns: the SVG is written
\* before the rendering
WrittenFiles(model, step) ==
    IF step = "provider" THEN {}
    ELSE IF step = "render" THEN {<<model, "svg">>}
    ELSE {<<model, "svg">>, <<model, "png">>}

\* sorted(results, key=lambda item: item["model"])
SortedByModel(rs) ==
    LET names == {rs[i].model : i \in 1..Len(rs)}
    IN  SelectSeq(ModelNames, LAMBDA m : m \in names)

Futures == 1..Len(models)
InState(st) == {i \in Futures : future_map[i] = st}

InitGen ==
    /\ AggIdle
    /\ JudgeIdle
    /\ program \in {"batch_comp", "comp"}
    /\ models \in ModelLists
    /\ max_workers \in 1..MaxWorkers
    /\ save_html \in (IF program = "comp" THEN BOOLEAN ELSE {TRUE})
    /\ raising \in [1..Len(models) -> RaiseSteps]
    /\ future_map = [i \in 1..Len(models) |-> "unsubmitted"]
    /\ outcome = [i \in 1..Len(models) |-> [model |-> models[i], status |-> "none"]]
    /\ yielded = {}
    /\ gen_results = <<>>
    /\ gen_pc = "submit"
    /\ files = {<<"", "prompt.txt">>}
    /\ summary = <<>>
    /\ viewer = <<>>
    /\ report = <<>>

\* executor.submit(generate_image, model, prompt, output_dir), in the order of
\* models; the loop over as_completed starts once every task is submitted
GenSubmit(i) ==
    /\ gen_pc = "submit"
    /\ future_map[i] = "unsubmitted"
    /\ \A j \in 1..(i - 1) : future_map[j] # "unsubmitted"
    /\ future_map' = [future_map EXCEPT ![i] = "pending"]
    /\ gen_pc' = IF i = Len(models) THEN "collect" ELSE "submit"
    /\ UNCHANGED <<outcome, yielded, gen_results, files, summary, viewer, report>>
    /\ UNCHANGED <<genconfig, aggvars>>

\* a free worker takes the oldest pending task
GenStart(i) ==
    /\ future_map[i] = "pending"
    /\ \A j \in 1..(i - 1) : future_map[j] # "pending"
    /\ Cardinality(InState("running")) < max_workers
    /\ future_map' = [future_map EXCEPT ![i] = "running"]
    /\ UNCHANGED <<outcome, yielded, gen_results, gen_pc, files, summary, viewer, report>>
    /\ UNCHANGED <<genconfig, aggvars>>

\* generate_image returns in its worker thread
GenFinish(i) ==
    /\ future_map[i] = "running"
    /\ future_map' = [future_map EXCEPT ![i] = "finished"]
    /\ outcome' = [outcome EXCEPT ![i] = generate_image(models[i], raising[i])]
    /\ files' = files \cup WrittenFiles(models[i], raising[i])
    /\ UNCHANGED <<yielded, gen_results, gen_pc, summary, viewer, report>>
    /\ UNCHANGED <<genconfig, aggvars>>

\* for future in as_completed(future_map): results.append(future.result());
\* future.result() raises again what left the task
GenCollect(i) ==
    /\ gen_pc = "collect"
    /\ future_map[i] = "finished"
    /\ i \notin yielded
    /\ yielded' = yielded \cup {i}
    /\ IF outcome[i].status = "raised"
       THEN gen_pc' = "crashed" /\ UNCHANGED gen_results
       ELSE gen_results' = Append(gen_results, outcome[i]) /\ UNCHANGED gen_pc
    /\ UNCHANGED <<future_map, outcome, files, summary, viewer, report>>
    /\ UNCHANGED <<genconfig, aggvars>>

\* as_completed is exhausted, the pool is left and summary.json is written
GenSummary ==
    /\ gen_pc = "collect"
    /\ yielded = Futures
    /\ summary' = gen_results
    /\ files' = files \cup {<<"", "summary.json">>}
    /\ gen_pc' = "viewer"
    /\ UNCHANGED <<future_map, outcome, yielded, gen_results, viewer, report>>
    /\ UNCHANGED <<genconfig, aggvars>>

\* generate_html_viewer(output_dir, results, ...); comp only if save_html
GenViewer ==
    /\ gen_pc = "viewer"
    /\ IF save_html
       THEN /\ viewer' = SortedByModel(gen_results)
            /\ files' = files \cup {<<"", "index.html">>}
       ELSE UNCHANGED <<viewer, files>>
    /\ gen_pc' = "count"
    /\ UNCHANGED <<future_map, outcome, yielded, gen_results, summary, report>>
    /\ UNCHANGED <<genconfig, aggvars>>

\* successes = sum(1 for r in results if r["status"] == "success");
\* failures = len(results) - successes
GenCount ==
    /\ gen_pc = "count"
    /\ LET successes == Cardinality({i \in 1..Len(gen_results) :
                                       gen_results[i].status = "success"})
       IN  report' = <<successes, Len(gen_results) - successes>>
    /\ gen_pc' = "done"
    /\ UNCHANGED <<future_map, outcome, yielded, gen_results, files, summary, viewer>>
    /\ UNCHANGED <<genconfig, aggvars>>

SubmitTask == \E i \in Futures : GenSubmit(i)
StartTask == \E i \in Futures : GenStart(i)
FinishTask == \E i \in Futures : GenFinish(i)
CollectResult == \E i \in Futures : GenCollect(i)

NextGen ==
    \/ SubmitTask
    \/ StartTask
    \/ FinishTask
    \/ CollectResult
    \/ GenSummary
    \/ GenViewer
    \/ GenCount

SpecGen == InitGen /\ [][NextGen]_vars

\* ============================================================== llm_judge.py
\* main loads the comparisons, leaves out those whose key the output file
\* holds, and evaluates the pending ones one after the other, the judges of
\* one comparison in a thread pool; each result is appended to the output
\* file before the next comparison is looked at.

MaxFileRows == 2        \* rows of the comparisons file of a run
MaxLoadRows == 3        \* rows of a comparisons file load_comparisons reads
MaxRuns == 2            \* successive runs of main
MaxJudgeWorkers == 2    \* size of the judges' thread pool

\* --------------------------------------------------------------------- names
\* A name is the sequence of its characters. The four fields every result
\* starts with (lines 171-176, 232):
FOLDER_PATH == <<"f", "o", "l", "d", "e", "r", "_", "p", "a", "t", "h">>
MODEL_A == <<"m", "o", "d", "e", "l", "_", "a">>
MODEL_B == <<"m", "o", "d", "e", "l", "_", "b">>
HUMAN_WINNER == <<"h", "u", "m", "a", "n", "_", "w", "i", "n", "n", "e", "r">>
FixedFields == <<FOLDER_PATH, MODEL_A, MODEL_B, HUMAN_WINNER>>

\* ch.isalnum() or ch in "-._", over the characters of the names of the model
IsSafe(ch) == ch \notin {"/", ":", " "}

\* model.split("/", 1)[-1] if "/" in model else model
AfterSlash(model) ==
    LET slashes == {i \in 1..Len(model) : model[i] = "/"}
    IN  IF slashes = {} THEN model
        ELSE LET first == CHOOSE i \in slashes : \A j \in slashes : i <= j
             IN  SubSeq(model, first + 1, Len(model))

\* s.strip(ch)
RECURSIVE Strip(_, _)
Strip(s, ch) ==
    IF s = <<>> THEN s
    ELSE IF Head(s) = ch THEN Strip(Tail(s), ch)
    ELSE IF s[Len(s)] = ch THEN Strip(SubSeq(s, 1, Len(s) - 1), ch)
    ELSE s

\* lines 42-46
sanitize_model_name(model) ==
    LET name == AfterSlash(model)
        safe == [i \in 1..Len(name) |-> IF IsSafe(name[i]) THEN name[i] ELSE "-"]
        stripped == Strip(safe, "-")
    IN  IF stripped = <<>> THEN <<"m", "o", "d", "e", "l">> ELSE stripped

\* judge_columns and fieldnames of main (lines 231-232)
JudgeColumns(js) == [i \in 1..Len(js) |-> sanitize_model_name(js[i])]
Fieldnames(js) == FixedFields \o JudgeColumns(js)

\* the judges of the configurations: "o/j1", "j2", "x/j1" (the column of the
\* first again) and "g/j:3"
Judge1 == <<"o", "/", "j", "1">>
Judge2 == <<"j", "2">>
Judge1x == <<"x", "/", "j", "1">>
Judge3 == <<"g", "/", "j", ":", "3">>
JudgeConfigs == {<<>>, <<Judge3>>, <<Judge1, Judge2>>, <<Judge1, Judge1x>>}

\* ---------------------------------------------------------- load_comparisons
FileRow(f, a, b, w) == [folder_path |-> f, model_a |-> a, model_b |-> b, winner |-> w]

\* the rows of the comparisons file a run of main reads: two rows of one
\* key, a row of another key, and a row without a folder
JudgeFileRows ==
    {FileRow("f1", "M1", "M2", "a"), FileRow("f1", "M1", "M2", "b"),
     FileRow("f2", "M1", "M2", "a"), FileRow("", "M1", "M2", "a")}

\* the rows of the files load_comparisons is applied to on its own
LoadRows ==
    {FileRow(f, a, b, w) : f \in {"", "f1", "f2"}, a \in {"", "M1"},
                           b \in {"", "M2"}, w \in {"a", "b"}}

\* (folder_path, model_a, model_b)
Key(c) == <<c.folder_path, c.model_a, c.model_b>>

\* a variant of LoadLoop: a later row of a key replaces the earlier one
RECURSIVE LoadLoop_LastWins(_, _, _)
LoadLoop_LastWins(rows, seen, loaded) ==
    IF rows = <<>> THEN loaded
    ELSE LET r == Head(rows)
             folder_path == Get(r, "folder_path")
             model_a == Get(r, "model_a")
             model_b == Get(r, "model_b")
             c == [folder_path |-> folder_path, model_a |-> model_a,
                   model_b |-> model_b, human_winner |-> Get(r, "winner")]
         IN  IF folder_path = "" \/ model_a = "" \/ model_b = ""
             THEN LoadLoop_LastWins(Tail(rows), seen, loaded)
             ELSE IF Key(c) \in seen
             THEN LoadLoop_LastWins(Tail(rows), seen,
                      [i \in 1..Len(loaded) |->
                          IF Key(loaded[i]) = Key(c) THEN c ELSE loaded[i]])
             ELSE LoadLoop_LastWins(Tail(rows), seen \cup {Key(c)}, Append(loaded, c))

\* lines 60-80: the loop over the rows of the file
RECURSIVE LoadLoop(_, _, _)
LoadLoop(rows, seen, loaded) ==
    IF rows = <<>> THEN loaded
    ELSE LET r == Head(rows)
             folder_path == Get(r, "folder_path")
             model_a == Get(r, "model_a")
             model_b == Get(r, "model_b")
             c == [folder_path |-> folder_path, model_a |-> model_a,
                   model_b |-> model_b, human_winner |-> Get(r, "winner")]
         IN  IF folder_path = "" \/ model_a = "" \/ model_b = ""
             THEN LoadLoop(Tail(rows), seen, loaded)
             ELSE IF Key(c) \in seen
             THEN LoadLoop(Tail(rows), seen, loaded)
             ELSE LoadLoop(Tail(rows), seen \cup {Key(c)}, Append(loaded, c))

\* lines 49-82
load_comparisons(rows) == LoadLoop(rows, {}, <<>>)

\* ------------------------------------------------------------ the output file
\* The file is the sequence of its rows, a row the sequence of its cells; the
\* first row is the header.

\* DictWriter.writerow: the value of every field of the header, "" for a
\* field the result lacks
CsvRow(fields, names) ==
    [i \in 1..Len(names) |->
        IF names[i] \in Keys(fields) THEN Val(fields, names[i]) ELSE ""]

\* DictReader, row.get(name, ""): the cell under the last column of that
\* name, "" without such a column
Cell(header, r, name) ==
    LET at == {i \in 1..Len(header) : i <= Len(r) /\ header[i] = name}
    IN  IF at = {} THEN "" ELSE r[CHOOSE i \in at : \A j \in at : j <= i]

\* lines 94-98: the key of a row of the output file
ReadKey(header, r) ==
    <<Cell(header, r, FOLDER_PATH), Cell(header, r, MODEL_A), Cell(header, r, MODEL_B)>>

\* lines 85-101
load_existing_results(file) ==
    IF ~file.exists \/ file.rows = <<>> THEN {}
    ELSE {ReadKey(file.rows[1], file.rows[i]) : i \in 2..Len(file.rows)}

\* a variant of append_result_to_csv: the header is written by every call
append_result_to_csv_HeaderAlways(file, fields, names) ==
    [exists |-> TRUE, rows |-> file.rows \o <<names, CsvRow(fields, names)>>]

\* lines 104-112: the header is written if the file did not exist, and the
\* row is written at the end of the file
append_result_to_csv(file, fields, names) ==
    [exists |-> TRUE,
     rows |-> (IF file.exists THEN file.rows ELSE <<names>>)
                 \o <<CsvRow(fields, names)>>]

\* DictWriter raises ValueError for a result with a field the header lacks
AppendRaises(fields, names) == ~(Keys(fields) \subseteq Range(names))

\* a variant of Pending: every comparison is pending
Pending_All(loaded, existing) == loaded

\* lines 235-238
Pending(loaded, existing) == SelectSeq(loaded, LAMBDA c : Key(c) \notin existing)

\* -------------------------------------------------------- evaluate_comparison
\* prompt.txt of a folder: missing, empty, blank, or holding a prompt
PromptFiles ==
    {[exists |-> FALSE, text |-> <<>>], [exists |-> TRUE, text |-> <<>>],
     [exists |-> TRUE, text |-> <<" ">>], [exists |-> TRUE, text |-> <<" ", "d", " ">>]}

\* lines 115-120
get_prompt_text(file) == IF file.exists THEN Strip(file.text, " ") ELSE <<>>

\* lines 156-168: the prompt and the two images are looked at in turn, the
\* next one only if the call has not returned
Looked(file, a, b) ==
    LET prompt == get_prompt_text(file)
    IN  [prompt |-> prompt,
         image_a |-> IF prompt = <<>> THEN "unchecked"
                     ELSE IF a THEN "exists" ELSE "missing",
         image_b |-> IF prompt = <<>> \/ ~a THEN "unchecked"
                     ELSE IF b THEN "exists" ELSE "missing"]

\* a variant of ReturnsNone: the image of model_b is not looked at
ReturnsNone_NoImageB(p) == p.prompt = <<>> \/ p.image_a # "exists"

\* lines 157-168: the three early returns
ReturnsNone(p) == p.prompt = <<>> \/ p.image_a # "exists" \/ p.image_b # "exists"

\* what a judge does: it answers "a" or "b", or get_judge_response raises
Replies == {"a", "b", "raised"}

\* a variant of evaluate_single_judge: an exception leaves the function
evaluate_single_judge_Uncaught(judge_model, reply) ==
    IF reply = "raised" THEN <<>>
    ELSE <<sanitize_model_name(judge_model), reply>>

\* lines 131-143: (judge_name, winner), the winner "error" after an exception;
\* <<>> stands for an exception that leaves the function
evaluate_single_judge(judge_model, reply) ==
    IF reply = "raised" THEN <<sanitize_model_name(judge_model), "error">>
    ELSE <<sanitize_model_name(judge_model), reply>>

\* lines 171-176
FixedResult(c) ==
    <<<<FOLDER_PATH, c.folder_path>>, <<MODEL_A, c.model_a>>,
      <<MODEL_B, c.model_b>>, <<HUMAN_WINNER, c.human_winner>>>>

JudgeFutures == 1..Len(configured_judges)
FuturesIn(st) == {i \in 1..Len(futures) : futures[i].state = st}

\* ----------------------------------------------------------------------- main
InitJudge ==
    /\ AggIdle
    /\ GenIdle
    /\ JudgeRest
    /\ configured_judges \in JudgeConfigs
    /\ judge_workers \in 1..MaxJudgeWorkers
    /\ comparisons_csv \in SeqsUpTo(JudgeFileRows, MaxFileRows)
    /\ judge_pc = "start"

\* what a step of main leaves alone
judgeconfig == <<configured_judges, judge_workers, comparisons_csv, aggvars, genvars>>

\* main up to the loop (lines 210-252); a run starts when no run is under way
StartRun ==
    /\ judge_pc \in {"start", "done", "nothing", "interrupted", "crashed"}
    /\ runs < MaxRuns
    /\ runs' = runs + 1
    /\ LET loaded == load_comparisons(comparisons_csv)
           existing == load_existing_results(output_csv)
           pending == Pending(loaded, existing)
       IN  IF configured_judges = <<>>
           THEN /\ judge_pc' = "exit"
                /\ UNCHANGED <<comparisons, existing_results, pending_comparisons>>
           ELSE IF loaded = <<>>
           THEN /\ judge_pc' = "exit"
                /\ comparisons' = loaded
                /\ UNCHANGED <<existing_results, pending_comparisons>>
           ELSE /\ comparisons' = loaded
                /\ existing_results' = existing
                /\ pending_comparisons' = pending
                /\ judge_pc' = IF pending = <<>> THEN "nothing" ELSE "loop"
    /\ idx' = 0
    /\ evaluated_count' = 0
    /\ result' = None
    /\ probe' = NoProbe
    /\ futures' = <<>>
    /\ judged' = <<>>
    /\ appended' = <<>>
    /\ skipped' = {}
    /\ UNCHANGED <<output_csv, written, judgeconfig>>

\* result = evaluate_comparison(...) up to the submission of the judges
\* (lines 152-184); a None is what main sees at once (lines 259, 271-272)
EvaluateComparison ==
    /\ judge_pc = "loop"
    /\ idx < Len(pending_comparisons)
    /\ LET comparison == pending_comparisons[idx + 1]
       IN  \E file \in PromptFiles, a \in BOOLEAN, b \in BOOLEAN :
              LET p == Looked(file, a, b)
              IN  /\ probe' = p
                  /\ IF ReturnsNone(p)
                     THEN /\ result' = None
                          /\ idx' = idx + 1
                          /\ skipped' = skipped \cup {Key(comparison)}
                          /\ UNCHANGED <<futures, judged, judge_pc>>
                     ELSE /\ result' = [none |-> FALSE, fields |-> FixedResult(comparison)]
                          /\ futures' = [i \in JudgeFutures |->
                                            [state |-> "pending", reply |-> "", value |-> <<>>]]
                          /\ judged' = Append(judged, Key(comparison))
                          /\ judge_pc' = "judging"
                          /\ UNCHANGED <<idx, skipped>>
    /\ UNCHANGED <<comparisons, output_csv, existing_results, pending_comparisons,
                   evaluated_count, runs, appended, written, judgeconfig>>

\* what the steps of the pool leave alone
poolframe == <<comparisons, output_csv, existing_results, pending_comparisons, idx,
               evaluated_count, probe, judge_pc, runs, judged, appended, skipped,
               written, judgeconfig>>

\* a free worker takes the oldest pending task
JudgeStart(i) ==
    /\ judge_pc = "judging"
    /\ futures[i].state = "pending"
    /\ \A j \in 1..(i - 1) : futures[j].state # "pending"
    /\ Cardinality(FuturesIn("running")) < judge_workers
    /\ futures' = [futures EXCEPT ![i].state = "running"]
    /\ UNCHANGED <<result, poolframe>>

\* evaluate_single_judge returns in its worker thread
JudgeFinish(i) ==
    /\ judge_pc = "judging"
    /\ futures[i].state = "running"
    /\ \E reply \in Replies :
          futures' = [futures EXCEPT
                         ![i] = [state |-> "finished", reply |-> reply,
                                 value |-> evaluate_single_judge(configured_judges[i], reply)]]
    /\ UNCHANGED <<result, poolframe>>

\* for future in as_completed(futures): judge_name, winner = future.result();
\* result[judge_name] = winner (lines 186-188)
JudgeCollect(i) ==
    /\ judge_pc = "judging"
    /\ futures[i].state = "finished"
    /\ futures' = [futures EXCEPT ![i].state = "yielded"]
    /\ IF futures[i].value = <<>>
       THEN /\ judge_pc' = "crashed"
            /\ UNCHANGED result
       ELSE /\ result' = [result EXCEPT
                             !.fields = DictSet(@, futures[i].value[1], futures[i].value[2])]
            /\ UNCHANGED judge_pc
    /\ UNCHANGED <<comparisons, output_csv, existing_results, pending_comparisons, idx,
                   evaluated_count, probe, runs, judged, appended, skipped, written,
                   judgeconfig>>

StartJudge == \E i \in JudgeFutures : JudgeStart(i)
FinishJudge == \E i \in JudgeFutures : JudgeFinish(i)
CollectVote == \E i \in JudgeFutures : JudgeCollect(i)

\* a variant of Record: the counter is not advanced
Record_NotCounted ==
    /\ judge_pc = "judging"
    /\ \A i \in JudgeFutures : futures[i].state = "yielded"
    /\ output_csv' = append_result_to_csv(output_csv, result.fields,
                                          Fieldnames(configured_judges))
    /\ written' = Append(written, CsvRow(result.fields, Fieldnames(configured_judges)))
    /\ appended' = Append(appended, Key(pending_comparisons[idx + 1]))
    /\ judge_pc' = "loop"
    /\ idx' = idx + 1
    /\ futures' = <<>>
    /\ probe' = NoProbe
    /\ UNCHANGED <<comparisons, existing_results, pending_comparisons, result, runs,
                   judged, skipped, evaluated_count, judgeconfig>>

\* evaluate_comparison returns its result and main appends it to the output
\* file and counts it (lines 190, 259-263)
Record ==
    /\ judge_pc = "judging"
    /\ \A i \in JudgeFutures : futures[i].state = "yielded"
    /\ LET names == Fieldnames(configured_judges)
       IN  IF result.fields = <<>>
           THEN /\ judge_pc' = "loop"
                /\ UNCHANGED <<output_csv, written, appended, evaluated_count>>
           ELSE IF AppendRaises(result.fields, names)
           THEN /\ judge_pc' = "crashed"
                /\ output_csv' = IF output_csv.exists THEN output_csv
                                 ELSE [exists |-> TRUE, rows |-> <<names>>]
                /\ UNCHANGED <<written, appended, evaluated_count>>
           ELSE /\ judge_pc' = "loop"
                /\ output_csv' = append_result_to_csv(output_csv, result.fields, names)
                /\ written' = Append(written, CsvRow(result.fields, names))
                /\ appended' = Append(appended, Key(pending_comparisons[idx + 1]))
                /\ evaluated_count' = evaluated_count + 1
    /\ idx' = idx + 1
    /\ futures' = <<>>
    /\ probe' = NoProbe
    /\ UNCHANGED <<comparisons, existing_results, pending_comparisons, result, runs,
                   judged, skipped, judgeconfig>>

\* the loop is through with the pending comparisons (lines 274-281)
Finish ==
    /\ judge_pc = "loop"
    /\ idx = Len(pending_comparisons)
    /\ judge_pc' = "done"
    /\ UNCHANGED <<comparisons, output_csv, existing_results, pending_comparisons, idx,
                   evaluated_count, result, probe, futures, runs, judged, appended,
                   skipped, written, judgeconfig>>

\* the run is ended from outside between two comparisons
Interrupt ==
    /\ judge_pc = "loop"
    /\ 0 < idx /\ idx < Len(pending_comparisons)
    /\ judge_pc' = "interrupted"
    /\ UNCHANGED <<comparisons, output_csv, existing_results, pending_comparisons, idx,
                   evaluated_count, result, probe, futures, runs, judged, appended,
                   skipped, written, judgeconfig>>

NextJudge ==
    \/ StartRun
    \/ EvaluateComparison
    \/ StartJudge
    \/ FinishJudge
    \/ CollectVote
    \/ Record
    \/ Finish
    \/ Interrupt

SpecJudge == InitJudge /\ [][NextJudge]_vars

\* load_comparisons on its own, applied to a file
InitLoad ==
    /\ AggIdle
    /\ GenIdle
    /\ JudgeRest
    /\ configured_judges = <<>>
    /\ judge_workers = 0
    /\ comparisons_csv \in SeqsUpTo(LoadRows, MaxLoadRows)
    /\ judge_pc = "load"

LoadFile ==
    /\ judge_pc = "load"
    /\ comparisons' = load_comparisons(comparisons_csv)
    /\ judge_pc' = "loaded"
    /\ UNCHANGED <<output_csv, existing_results, pending_comparisons, idx,
                   evaluated_count, result, probe, futures, runs, judged, appended,
                   skipped, written, judgeconfig>>

SpecLoad == InitLoad /\ [][LoadFile]_vars

\* =================================================================== claims
\* the rating a competitor has in d, a competitor not yet rated having 1500
Prior(d, k) == IF k \in Keys(d) THEN Val(d, k) ELSE INITIAL_ELO * SCALE

\* a step that is one loop iteration
IterStep == n' = n + 1

\* the last iteration ran the loop body on a record that was not skipped
Processed == n > 0 /\ winner \in {"a", "b"}

\* the ratings after a step are those the ELO formula gives, with the
\* expected score eb of competitor_b
EloFormula(a, b, w, ea, eb) ==
    LET Ra == Prior(elo_scores, a)
        Rb == Prior(elo_scores, b)
        actual_a == IF w = "a" THEN SCALE ELSE 0
        actual_b == IF w = "b" THEN SCALE ELSE 0
    IN  /\ Val(elo_scores', a) = Ra + 32 * (actual_a - ea)
        /\ Val(elo_scores', b) = Rb + 32 * (actual_b - eb)

Delta(c) == Val(elo_scores', c) - Prior(elo_scores, c)

C3_EveryEncountered ==
    pc = "returned" =>
        \A c \in encountered :
            /\ c \in Keys(ret)
            /\ c \notin played => Val(ret, c) = INITIAL_ELO * SCALE

\* C3 amended: the returned mapping holds exactly the competitors of the
\* records that were not skipped; a competitor seen only in skipped records
\* is not in it.
C3_ExactlyPlayed ==
    pc = "returned" => Keys(ret) = played /\ Len(ret) = Cardinality(played)

\* C3 witness: a call has returned after a skipped record naming a competitor
\* that no processed record names, and after a processed record
C3_Witness ==
    /\ pc = "returned"
    /\ played # {}
    /\ encountered \ played # {}

\* C4: a record whose vote is not "a" or "b" leaves every rating as it was,
\* in the reference-vote ranking and in the consensus ranking.
C4_SkipChangesNothing ==
    [][(IterStep /\ winner' \notin {"a", "b"}) =>
        /\ elo_scores' = elo_scores
        /\ \A c \in Comps : Prior(elo_scores', c) = Prior(elo_scores, c)]_vars

\* C4 witness: the consensus loop has passed over a record on which the two
\* judges disagree, with ratings already present
C4_Witness ==
    /\ pc = "consensus"
    /\ judge_columns = <<"j1", "j2">>
    /\ Get(row, "j1") = "a" /\ Get(row, "j2") = "b"
    /\ winner = ""
    /\ elo_scores # <<>>

\* the positions of the judge list whose column holds the vote v in the record
VotesFor(r, judges, v) ==
    {i \in 1..Len(judges) : judges[i] \in DOMAIN r /\ r[judges[i]] = v}

\* C5: the consensus winner is "a" iff more judges voted "a" than "b", "b" iff
\* more voted "b" than "a", and "" iff as many voted "a" as "b"; "error", an
\* empty and a missing vote count for neither.
C5_ConsensusWinner ==
    (pc = "consensus" /\ n > 0) =>
        LET na == Cardinality(VotesFor(row, judge_columns, "a"))
            nb == Cardinality(VotesFor(row, judge_columns, "b"))
        IN  /\ (winner = "a") <=> (na > nb)
            /\ (winner = "b") <=> (nb > na)
            /\ (winner = "") <=> (na = nb)

\* C5 witness: one judge voted "a" and the other "error", and the winner is "a"
C5_Witness ==
    /\ pc = "consensus" /\ n > 0
    /\ judge_columns = <<"j1", "j2">>
    /\ Get(row, "j1") = "a" /\ Get(row, "j2") = "error"
    /\ winner = "a"

\* ------------------------------------------------- claims on whole calls
\* a record with the column "winner" set to w
WithWinner(r, w) ==
    [k \in DOMAIN r \cup {"winner"} |-> IF k = "winner" THEN w ELSE r[k]]

\* the records with the winner column set to the judges' consensus
Projected(rs, judges) ==
    [i \in 1..Len(rs) |-> WithWinner(rs[i], get_consensus_winner(rs[i], judges))]

\* C6: compute_consensus_elo(records, sources) returns what
\* compute_elo_rankings returns on the same records, in the same order, with
\* the winner column of each record set to its consensus winner.
C6_ConsensusIsEloOnProjection ==
    pc = "consensus_done" =>
        ret = compute_elo_rankings(Projected(results, judge_columns), "winner")

\* C6 witness: a consensus ranking of two records was computed, one decided
\* by the judges and one on which they tie
C6_Witness ==
    /\ pc = "consensus_done"
    /\ judge_columns = <<"j1", "j2">>
    /\ Len(results) = 2
    /\ get_consensus_winner(results[1], judge_columns) = "b"
    /\ Get(results[2], "j1") = "a" /\ Get(results[2], "j2") = "b"
    /\ Len(ret) = 2

\* the competitors a record names
Pair(r) == {r.model_a, r.model_b}

\* the list with the records at i and i+1 exchanged
SwapAt(rs, i) ==
    [k \in 1..Len(rs) |-> IF k = i THEN rs[i + 1] ELSE IF k = i + 1 THEN rs[i] ELSE rs[k]]

\* C7: exchanging two adjacent records that have no competitor in common
\* leaves the final rating of every competitor as it was.
C7_DisjointSwapCommutes ==
    pc = "elo_done" =>
        \A i \in 1..(Len(results) - 1) :
            Pair(results[i]) \cap Pair(results[i + 1]) = {} =>
                Range(compute_elo_rankings(SwapAt(results, i), winner_column)) = Range(ret)

\* C7 witness: a ranking of two processed records naming four competitors
C7_Witness ==
    /\ pc = "elo_done"
    /\ Len(results) = 2
    /\ Pair(results[1]) \cap Pair(results[2]) = {}
    /\ Cardinality(Keys(ret)) = 4
    /\ ret # compute_elo_rankings(SwapAt(results, 1), winner_column)

\* two records, both processed, each of two distinct competitors, with exactly
\* one competitor in common
ShareOne(rs, col) ==
    /\ Len(rs) = 2
    /\ \A i \in 1..2 : EloWinner(rs[i], col) \in {"a", "b"} /\ Cardinality(Pair(rs[i])) = 2
    /\ Cardinality(Pair(rs[1]) \cap Pair(rs[2])) = 1

\* C8: the ranking depends on the order of the records: two processed records
\* that share one competitor give different final ratings in their two orders.
C8_OrderSensitive ==
    (pc = "elo_done" /\ ShareOne(results, winner_column)) =>
        Range(compute_elo_rankings(SwapAt(results, 1), winner_column)) # Range(ret)

\* C8 witness: a ranking of two processed records sharing one competitor
C8_Witness ==
    /\ pc = "elo_done"
    /\ ShareOne(results, winner_column)
    /\ Cardinality(Keys(ret)) = 3

\* the record (M1, M2) with the reference vote v
R12(v) == MakeRow("M1", "M2", [k \in {"human_winner"} |-> v])

\* a rating in hundredths, rounded
Hundredths(x) == RDiv(x, SCALE \div 100)

\* one record (M1, M2, "a") gives exactly 1516.0 and 1484.0
ScenarioFirst ==
    (pc = "elo_done" /\ winner_column = "human_winner" /\ results = <<R12("a")>>) =>
        /\ ExpectedScore(INITIAL_ELO * SCALE, INITIAL_ELO * SCALE) * 2 = SCALE
        /\ ret = << <<"M1", 1516 * SCALE>>, <<"M2", 1484 * SCALE>> >>

\* after the second record (M1, M2, "b") the ratings are m1 and m2 hundredths
ScenarioSecond(m1, m2) ==
    (pc = "elo_done" /\ winner_column = "human_winner"
        /\ results = <<R12("a"), R12("b")>>) =>
        /\ Keys(ret) = {"M1", "M2"}
        /\ Hundredths(Val(ret, "M1")) = m1
        /\ Hundredths(Val(ret, "M2")) = m2
        /\ Val(ret, "M1") < INITIAL_ELO * SCALE
        /\ Val(ret, "M2") > INITIAL_ELO * SCALE
        /\ Val(ret, "M1") + Val(ret, "M2") = 3000 * SCALE

\* C9 as stated: M1 = 1516.0 and M2 = 1484.0 after the first record, and
\* M1 = 1498.54, M2 = 1501.46 to two decimals after the second.
C9_ScenarioAsStated == ScenarioFirst /\ ScenarioSecond(149854, 150146)

\* C9 amended: M1 = 1516.0 and M2 = 1484.0 after the first record, and
\* M1 = 1498.53, M2 = 1501.47 to two decimals after the second (M1 below
\* 1500, M2 above, sum 3000).
C9_Scenario == ScenarioFirst /\ ScenarioSecond(149853, 150147)

\* C9 witness: the ranking of the two records of the scenario was computed
C9_Witness ==
    /\ pc = "elo_done"
    /\ winner_column = "human_winner"
    /\ results = <<R12("a"), R12("b")>>
    /\ Len(ret) = 2

\* the record holds "a" or "b" in the column
IsAB(r, col) == col \in DOMAIN r /\ r[col] \in {"a", "b"}

\* the records in which the reference vote and the judge's vote are both valid
BothValid(rs, judge) ==
    {i \in 1..Len(rs) : IsAB(rs[i], "human_winner") /\ IsAB(rs[i], judge)}

\* C10: for each vote source, total is the number of records in which the
\* reference vote and the source's vote are both "a" or "b", and agreements
\* the number of those in which the two are equal.
C10_AgreementCounts ==
    pc = "agreement_done" =>
        /\ Keys(stats) = Range(judge_columns)
        /\ \A judge \in Range(judge_columns) :
              LET t == Val(stats, judge)
                  valid == BothValid(results, judge)
              IN  /\ t[2] = Cardinality(valid)
                  /\ t[1] = Cardinality({i \in valid :
                                           results[i]["human_winner"] = results[i][judge]})

\* C10 witness: j1 agrees with one of two reference votes, and a record in
\* which j2 voted "error" counts for j2 neither way
C10_Witness ==
    /\ pc = "agreement_done"
    /\ judge_columns = <<"j1", "j2">>
    /\ Len(results) = 2
    /\ Val(stats, "j1")[1] = 1 /\ Val(stats, "j1")[2] = 2
    /\ Val(stats, "j2")[2] = 1
    /\ \E i \in 1..2 : Get(results[i], "j2") = "error"

\* ------------------------------------------------- claims on the tallies
\* no record carries a valid reference vote
NoReferenceVote(rs) == \A i \in 1..Len(rs) : ~IsAB(rs[i], "human_winner")

\* C11: a source or a pair of sources with total = 0 has the percentage 0.0;
\* when no record carries a valid reference vote, every source of
\* compute_agreement_stats has total = 0 and the percentage 0.0.
C11_EmptyTallyIsZero ==
    /\ pc = "agreement_done" =>
          /\ \A judge \in Range(judge_columns) :
                Val(stats, judge)[2] = 0 => Val(stats, judge)[3] = 0
          /\ NoReferenceVote(results) =>
                \A judge \in Range(judge_columns) :
                    Val(stats, judge)[2] = 0 /\ Val(stats, judge)[3] = 0
    /\ pc = "inter_done" =>
          \A key \in Keys(inter_stats) :
              Val(inter_stats, key)[2] = 0 => Val(inter_stats, key)[3] = 0

\* C11 witness: a judge voted validly on two records of which none carries a
\* valid reference vote
C11_Witness ==
    /\ pc = "agreement_done"
    /\ judge_columns = <<"j1", "j2">>
    /\ Len(results) = 2
    /\ NoReferenceVote(results)
    /\ \A i \in 1..2 : IsAB(results[i], "j1")
    /\ Val(stats, "j1") = <<0, 0, 0>>

\* C12: the inter-judge tallies are symmetric: for any two sources X and Y of
\* the list, the entries (X, Y) and (Y, X) both exist and are equal.
C12_InterSymmetric ==
    pc = "inter_done" =>
        \A x \in Range(judge_columns), y \in Range(judge_columns) :
            /\ <<x, y>> \in Keys(inter_stats)
            /\ <<y, x>> \in Keys(inter_stats)
            /\ Val(inter_stats, <<x, y>>) = Val(inter_stats, <<y, x>>)

\* C12 witness: two judges who agree on one of two records
C12_Witness ==
    /\ pc = "inter_done"
    /\ judge_columns = <<"j2", "j1">>
    /\ Len(results) = 2
    /\ <<"j1", "j2">> \in Keys(inter_stats)
    /\ Val(inter_stats, <<"j1", "j2">>)[1] = 1
    /\ Val(inter_stats, <<"j1", "j2">>)[2] = 2

\* the records in which the judge's vote is valid
ValidVotes(rs, judge) == {i \in 1..Len(rs) : IsAB(rs[i], judge)}

\* C13: a source with at least one valid vote agrees with itself on all of
\* them: the entry (X, X) has agreements = total = the number of records with
\* a valid vote of X, and the percentage 100.0.
C13_SelfAgreement ==
    pc = "inter_done" =>
        \A x \in Range(judge_columns) :
            LET c == Cardinality(ValidVotes(results, x))
            IN  c > 0 => /\ <<x, x>> \in Keys(inter_stats)
                         /\ Val(inter_stats, <<x, x>>) = <<c, c, 100 * SCALE>>

\* C13 witness: a judge with one valid vote and one "error"
C13_Witness ==
    /\ pc = "inter_done"
    /\ "j1" \in Range(judge_columns)
    /\ Len(results) = 2
    /\ Cardinality(ValidVotes(results, "j1")) = 1
    /\ \E i \in 1..2 : Get(results[i], "j1") = "error"
    /\ <<"j1", "j1">> \in Keys(inter_stats)

\* the sources of the list are distinct
Distinct(judges) ==
    \A i \in 1..Len(judges), j \in 1..Len(judges) : judges[i] = judges[j] => i = j

\* where a source stands in the list
Pos(judges, x) == CHOOSE i \in 1..Len(judges) : judges[i] = x

\* the tally of two sources from their own votes
OwnTally(rs, x, y) ==
    LET valid == ValidVotes(rs, x) \cap ValidVotes(rs, y)
        agree == {i \in valid : rs[i][x] = rs[i][y]}
    IN  <<Cardinality(agree), Cardinality(valid)>>

\* C14: for n distinct sources the result holds one entry for every ordered
\* pair, the diagonal included (n * n entries), each tallied from the two
\* sources' own votes; the detail list names every pair i < j exactly once,
\* in source order.
C14_FullGrid ==
    (pc = "inter_done" /\ Distinct(judge_columns)) =>
        LET src == Range(judge_columns)
            positions == 1..Len(judge_columns)
            above == {<<judge_columns[p[1]], judge_columns[p[2]]>> :
                         p \in {q \in positions \X positions : q[1] < q[2]}}
        IN  /\ Keys(inter_stats) = src \X src
            /\ Len(inter_stats) = Len(judge_columns) * Len(judge_columns)
            /\ \A x \in src, y \in src :
                  LET t == Val(inter_stats, <<x, y>>)
                  IN  <<t[1], t[2]>> = OwnTally(results, x, y)
            /\ {<<details[k][1], details[k][2]>> : k \in 1..Len(details)} = above
            /\ Len(details) = Cardinality(above)
            /\ \A k \in 1..Len(details), l \in 1..Len(details) :
                  k < l =>
                    LET ik == Pos(judge_columns, details[k][1])
                        jk == Pos(judge_columns, details[k][2])
                        il == Pos(judge_columns, details[l][1])
                        jl == Pos(judge_columns, details[l][2])
                    IN  ik < il \/ (ik = il /\ jk < jl)

\* C14 witness: three judges, of whom the first two disagree on a record, give
\* nine entries and the three pairs in source order
C14_Witness ==
    /\ pc = "inter_done"
    /\ judge_columns = <<"j3", "j1", "j2">>
    /\ \E i \in 1..Len(results) : IsAB(results[i], "j3") /\ IsAB(results[i], "j1")
                                    /\ results[i]["j3"] # results[i]["j1"]
    /\ Len(inter_stats) = 9
    /\ Len(details) = 3
    /\ details[1][1] = "j3" /\ details[1][2] = "j1"

\* ------------------------------------------------ claims on the vote sources
\* the keys present on any record
AllKeys(rs) == UNION {DOMAIN rs[i] : i \in 1..Len(rs)}

\* the four reserved field names
Reserved == {"folder_path", "model_a", "model_b", "human_winner"}

\* C15 as stated: the vote sources are the keys present on any record minus
\* the four reserved field names.
C15_KeysOfAnyRecord ==
    pc = "columns_done" => Range(judge_columns) = AllKeys(results) \ Reserved

\* C15 amended: the vote sources are the keys of the first record minus the
\* four reserved field names, each once and in the record's key order (none
\* for an empty list); they are the keys of any record when all records carry
\* the same keys.
C15_KeysOfFirstRecord ==
    pc = "columns_done" =>
        /\ results = <<>> => judge_columns = <<>>
        /\ results # <<>> =>
              /\ judge_columns =
                    SelectSeq(RowKeys(results[1]), LAMBDA k : k \notin Reserved)
              /\ Range(judge_columns) = DOMAIN results[1] \ Reserved
              /\ Len(judge_columns) = Cardinality(Range(judge_columns))
        /\ (\A i \in 1..Len(results) : DOMAIN results[i] = DOMAIN results[1]) =>
              Range(judge_columns) = AllKeys(results) \ Reserved

\* C15 witness: the second record carries the column j1, the first only
\* human_winner and j2, and j2 alone is reported
C15_Witness ==
    /\ pc = "columns_done"
    /\ Len(results) = 2
    /\ DOMAIN results[1] = {"model_a", "model_b", "human_winner", "j2"}
    /\ "j1" \in DOMAIN results[2]
    /\ judge_columns = <<"j2">>

\* --------------------------------------------------- claims on exceptions
\* the records whose vote in the column decides
Decided(rs, col) == SelectSeq(rs, LAMBDA r : IsAB(r, col))

\* the records on which the judges reach a consensus
Agreed(rs, judges) == SelectSeq(rs, LAMBDA r : get_consensus_winner(r, judges) \in {"a", "b"})

\* C16: the rating operations raise only when a record lacks model_a or
\* model_b; an absent vote column or a vote other than "a" and "b" is no
\* decision (the result is that of the deciding records alone); the two
\* agreement operations never raise.
C16_RaisesOnlyWithoutCompetitor ==
    /\ pc \in {"elo_raised", "consensus_raised"} =>
          \E i \in 1..Len(results) : ~({"model_a", "model_b"} \subseteq DOMAIN results[i])
    /\ pc \notin {"agreement_raised", "inter_raised"}
    /\ pc = "elo_done" =>
          ret = compute_elo_rankings(Decided(results, winner_column), winner_column)
    /\ pc = "consensus_done" =>
          ret = compute_consensus_elo(Agreed(results, judge_columns), judge_columns)

\* C16 witness: a ranking over a record whose vote is "error" and a record
\* without the vote column, next to one that decides
C16_Witness ==
    /\ pc = "elo_done"
    /\ winner_column = "j1"
    /\ Len(results) = 2
    /\ \/ Get(results[1], "j1") = "error"
       \/ "j1" \notin DOMAIN results[1]
    /\ IsAB(results[2], "j1")
    /\ Len(ret) = 2

PosIn(d, k) == CHOOSE i \in 1..Len(d) : d[i][1] = k

\* C19: the ranking table lists every competitor of the mapping once, by
\* rating in descending order, competitors of equal rating in the order in
\* which they entered the mapping.
C19_RankingTable ==
    pc \in {"elo_done", "consensus_done"} =>
        /\ Len(table) = Len(ret)
        /\ {table[k][2] : k \in 1..Len(table)} = Keys(ret)
        /\ \A k \in 1..Len(table) :
              table[k][1] = k /\ table[k][3] = Tenths(Val(ret, table[k][2]))
        /\ \A k \in 1..Len(table), l \in 1..Len(table) :
              k < l =>
                LET rk == Val(ret, table[k][2])
                    rl == Val(ret, table[l][2])
                IN  /\ rk >= rl
                    /\ rk = rl => PosIn(ret, table[k][2]) < PosIn(ret, table[l][2])

\* C19 witness: two winners and two losers of equal ratings, listed in the
\* order of their records
C19_Witness ==
    /\ pc = "elo_done"
    /\ Len(ret) = 4
    /\ Val(ret, "M1") = Val(ret, "M3")
    /\ Val(ret, "M2") = Val(ret, "M4")
    /\ ret[1][1] = "M2" /\ ret[2][1] = "M1"
    /\ table[1][2] = "M1" /\ table[2][2] = "M3"
    /\ table[3][2] = "M2" /\ table[4][2] = "M4"

\* ------------------------------------------------ claims on repeated calls
\* C18: a call is determined by its records alone: every call, also one that
\* follows another, starts from an empty rating map, each iteration makes the
\* next map from the current one and the record read, and the map is what the
\* call returns.
C18_Stateless ==
    [][/\ (pc \in {"start", "returned"} /\ pc' \in {"elo", "consensus"}) =>
              elo_scores' = <<>> /\ n' = 0
       /\ (IterStep /\ pc = "elo") =>
              elo_scores' = EloBody(elo_scores, row', EloWinner(row', winner_column)).scores
       /\ (IterStep /\ pc = "consensus") =>
              elo_scores' = ConsensusBody(elo_scores, row',
                                          get_consensus_winner(row', judge_columns)).scores
       /\ (pc \in {"elo", "consensus"} /\ pc' = "returned") => ret' = elo_scores]_vars

\* C18 witness: a second call has rated two competitors from one record, as a
\* first call does
C18_Witness ==
    /\ calls = 2
    /\ pc = "returned"
    /\ n = 1
    /\ Len(ret) = 2
    /\ Val(ret, row.model_a) + Val(ret, row.model_b) = 2 * INITIAL_ELO * SCALE

\* ------------------------------------------------ claims on the generation
\* the results hold one entry per configured model, "error" for the models
\* whose task raised and "success" for the others
OnePerModel(rs) ==
    /\ Len(rs) = Len(models)
    /\ \A i \in Futures :
          /\ Cardinality({k \in 1..Len(rs) : rs[k].model = models[i]}) = 1
          /\ \A k \in 1..Len(rs) :
                rs[k].model = models[i] =>
                    rs[k].status = IF raising[i] = "none" THEN "success" ELSE "error"

\* C20: for any completion order and any set of models whose provider call or
\* rendering raises, exactly one result per configured model is collected,
\* "error" for exactly the failing models; the summary and the viewer are
\* written only after every task has completed, and successes + failures is
\* the number of models.
C20_FanOutIsolation ==
    /\ gen_pc # "crashed"
    /\ gen_pc \in {"viewer", "count", "done"} => OnePerModel(gen_results)
    /\ summary # <<>> => InState("finished") = Futures /\ summary = gen_results
    /\ viewer # <<>> =>
          /\ InState("finished") = Futures
          /\ summary # <<>>
          /\ {viewer[k] : k \in 1..Len(viewer)} = {models[i] : i \in Futures}
    /\ gen_pc = "done" =>
          /\ report[1] + report[2] = Len(models)
          /\ report[2] = Cardinality({i \in Futures : raising[i] # "none"})
          /\ save_html => viewer # <<>>

\* C20 witness: of three models the first fails at the provider and the second
\* at the rendering, the third finishes first, and the script is done
C20_Witness ==
    /\ gen_pc = "done"
    /\ Len(models) = 3
    /\ raising = <<"provider", "render", "none">>
    /\ gen_results[1].model = models[3]
    /\ report = <<1, 2>>

\* every competitor other than those in ks keeps its rating in a step, and the
\* step rates nobody but those in ks
OthersKept(ks) ==
    /\ Keys(elo_scores') = Keys(elo_scores) \cup ks
    /\ \A c \in Keys(elo_scores) \ ks : Val(elo_scores', c) = Val(elo_scores, c)

\* C21: a processed record whose two competitors are the same competitor M
\* changes the rating of M alone, to the old rating - 16 when the vote is "a"
\* and to the old rating + 16 when the vote is "b": both expected scores are
\* 0.5 and the store for model_b is the one that lasts.
C21_SelfPair ==
    [][(IterStep /\ winner' \in {"a", "b"} /\ row'.model_a = row'.model_b) =>
        LET M == row'.model_a
        IN  /\ expected_a' = SCALE \div 2
            /\ expected_b' = SCALE \div 2
            /\ Delta(M) = IF winner' = "a" THEN -(16 * SCALE) ELSE 16 * SCALE
            /\ OthersKept({M})]_vars

\* C21 witness: a processed self-pair record of a competitor rated before,
\* voted "a", next to another rated competitor
C21_Witness ==
    /\ Processed
    /\ row.model_a = row.model_b
    /\ winner = "a"
    /\ Len(elo_scores) = 2
    /\ rating_a # INITIAL_ELO * SCALE
    /\ Val(elo_scores, row.model_a) = rating_a - 16 * SCALE

\* C30: for a processed record of two distinct competitors the rating of the
\* winner strictly increases and the rating of the loser strictly decreases,
\* each by more than 0 and less than K = 32, and no other rating changes.
C30_WinnerUpLoserDown ==
    [][(IterStep /\ winner' \in {"a", "b"} /\ row'.model_a # row'.model_b) =>
        LET won == IF winner' = "a" THEN row'.model_a ELSE row'.model_b
            lost == IF winner' = "a" THEN row'.model_b ELSE row'.model_a
        IN  /\ 0 < Delta(won) /\ Delta(won) < K_FACTOR * SCALE
            /\ 0 < -Delta(lost) /\ -Delta(lost) < K_FACTOR * SCALE
            /\ OthersKept({won, lost})]_vars

\* C30 witness: a processed record won by the lower rated of two distinct
\* competitors, both rated before, next to a third rated competitor
C30_Witness ==
    /\ Processed
    /\ row.model_a # row.model_b
    /\ winner = "b"
    /\ rating_b < rating_a
    /\ rating_b # INITIAL_ELO * SCALE
    /\ Len(elo_scores) = 3
    /\ Val(elo_scores, row.model_b) > rating_b
    /\ Val(elo_scores, row.model_a) < rating_a

\* a tally <<agreements, total, percentage>> over the records rs is in range
TallyInRange(t, rs) ==
    /\ 0 <= t[1] /\ t[1] <= t[2] /\ t[2] <= Len(rs)
    /\ 0 <= t[3] /\ t[3] <= 100 * SCALE
    /\ t[3] = 100 * SCALE <=> (t[2] > 0 /\ t[1] = t[2])

\* C29: every tally of compute_agreement_stats and of
\* compute_inter_judge_agreement has 0 <= agreements <= total <= number of
\* records, and a percentage in [0, 100] that is 100 exactly when total > 0
\* and agreements = total.
C29_TallyBounds ==
    /\ pc = "agreement_done" =>
          \A k \in Keys(stats) : TallyInRange(Val(stats, k), results)
    /\ pc = "inter_done" =>
          \A k \in Keys(inter_stats) : TallyInRange(Val(inter_stats, k), results)

\* C29 witness: of two judges over two records one agrees with the reference
\* vote once and the other both times
C29_Witness ==
    /\ pc = "agreement_done"
    /\ Len(results) = 2
    /\ judge_columns = <<"j1", "j2">>
    /\ Val(stats, "j1") = <<1, 2, 50 * SCALE>>
    /\ Val(stats, "j2") = <<2, 2, 100 * SCALE>>

\* C22: the four aggregation functions leave their inputs as they were: after
\* a call the record list holds the same records with the same keys and
\* values, and the source list passed to the call is unchanged.
C22_InputsUnchanged ==
    [][/\ results' = results
       /\ pc = "columns_done" => judge_columns' = judge_columns]_vars

\* C22 witness: a call has returned tallies over the source list main passed
\* on, with records that lack a column the call read
C22_Witness ==
    /\ pc = "agreement_done"
    /\ judge_columns = <<"j1", "j2">>
    /\ judge_columns = get_judge_columns(results)
    /\ Len(results) = 2
    /\ "human_winner" \notin DOMAIN results[2]
    /\ Keys(stats) = {"j1", "j2"}

\* ---------------------------------------------------- claims on llm_judge
\* the keys of the data rows of the output file, in file order
FileKeys ==
    IF ~output_csv.exists \/ output_csv.rows = <<>> THEN <<>>
    ELSE [i \in 1..(Len(output_csv.rows) - 1) |->
             ReadKey(output_csv.rows[1], output_csv.rows[i + 1])]

\* the keys of the pending comparisons, in order
PendingKeys == [i \in 1..Len(pending_comparisons) |-> Key(pending_comparisons[i])]

ValidRows(rows) ==
    {i \in 1..Len(rows) : rows[i].folder_path # "" /\ rows[i].model_a # ""
                            /\ rows[i].model_b # ""}

\* the first valid row of the file with the key of comparison c
FirstRow(rows, c) ==
    CHOOSE i \in ValidRows(rows) :
        /\ Key(rows[i]) = Key(c)
        /\ \A j \in ValidRows(rows) : Key(rows[j]) = Key(c) => i <= j

\* C24: load_comparisons returns unique triplets: every returned comparison
\* has a non-empty folder_path, model_a and model_b, no two have the same
\* key, every key of a valid row is returned, the human_winner of a key is
\* that of its first row in the file, and the comparisons stand in the file
\* order of those first rows.
C24_UniqueTriplets ==
    judge_pc = "loaded" =>
        LET rows == comparisons_csv
            at == 1..Len(comparisons)
        IN  /\ \A i \in at : /\ comparisons[i].folder_path # ""
                             /\ comparisons[i].model_a # ""
                             /\ comparisons[i].model_b # ""
            /\ \A i \in at, j \in at : Key(comparisons[i]) = Key(comparisons[j]) => i = j
            /\ {Key(comparisons[i]) : i \in at} = {Key(rows[i]) : i \in ValidRows(rows)}
            /\ \A i \in at :
                  comparisons[i].human_winner = rows[FirstRow(rows, comparisons[i])].winner
            /\ \A i \in at, j \in at :
                  i < j => FirstRow(rows, comparisons[i]) < FirstRow(rows, comparisons[j])

\* C24 witness: a file whose third row repeats the key of the first with
\* another vote, around a row of another key
C24_Witness ==
    /\ judge_pc = "loaded"
    /\ Len(comparisons_csv) = 3
    /\ Key(comparisons_csv[3]) = Key(comparisons_csv[1])
    /\ comparisons_csv[3].winner # comparisons_csv[1].winner
    /\ Len(comparisons) = 2
    /\ comparisons[1].human_winner = comparisons_csv[1].winner

\* every future has been yielded: evaluate_comparison returns
AllYielded ==
    /\ judge_pc = "judging"
    /\ \A i \in JudgeFutures : futures[i].state = "yielded"

Evaluates == judge_pc = "loop" /\ (idx' = idx + 1 \/ judge_pc' = "judging")

\* C26: a comparison whose prompt file is missing or empty, or one of whose
\* two images does not exist, is skipped: no judge is called, None is
\* returned, no row is appended, evaluated_count is not advanced, and the
\* comparison is pending again in the next run.
C26_SkippedStaysPending ==
    /\ [][(Evaluates /\ (probe'.prompt = <<>> \/ probe'.image_a = "missing"
                            \/ probe'.image_b = "missing")) =>
             /\ result' = None
             /\ futures' = <<>> /\ judged' = judged
             /\ output_csv' = output_csv /\ written' = written
             /\ evaluated_count' = evaluated_count
             /\ Key(pending_comparisons[idx + 1]) \in skipped']_vars
    /\ [][(runs' = runs + 1) => skipped \subseteq Range(PendingKeys')]_vars

\* C26 witness: the one pending comparison of a second run is skipped for
\* its missing second image, after the first run appended nothing either
C26_Witness ==
    /\ runs = 2
    /\ judge_pc = "loop"
    /\ Len(pending_comparisons) = 1
    /\ idx = 1
    /\ probe.image_b = "missing"
    /\ result = None
    /\ output_csv = NoFile
    /\ evaluated_count = 0

\* s without its last element
Front(s) == SubSeq(s, 1, Len(s) - 1)

\* the last k elements of s
Last(s, k) == SubSeq(s, Len(s) - k + 1, Len(s))

\* C27: the row of a comparison is appended before the evaluation of the next
\* one starts: the rows appended in this run are those of the comparisons
\* handed to the judges so far (but for the one under evaluation), they stand
\* at the end of the file in pending order, and evaluated_count is their
\* number, at most the number of pending comparisons.
C27_AppendedAtOnce ==
    /\ appended = IF judge_pc = "judging" THEN Front(judged) ELSE judged
    /\ Len(appended) <= Len(FileKeys)
    /\ Last(FileKeys, Len(appended)) = appended
    /\ appended = SelectSeq(SubSeq(PendingKeys, 1, idx), LAMBDA k : k \in Range(appended))
    /\ evaluated_count = Len(appended)
    /\ evaluated_count <= Len(pending_comparisons)

\* C27 witness: the second pending comparison is with the judges and the row
\* of the first is in the file
C27_Witness ==
    /\ judge_pc = "judging"
    /\ Len(judged) = 2
    /\ appended = <<judged[1]>>
    /\ evaluated_count = 1
    /\ FileKeys = <<judged[1]>>

\* C28: append_result_to_csv writes the header exactly when the file does not
\* exist: after any sequence of calls from a file that did not exist the file
\* is one header row and then one row per call, in call order, and no call
\* changes or removes a row written before.
C28_HeaderOnce ==
    /\ [](IF output_csv.exists
          THEN output_csv.rows = <<Fieldnames(configured_judges)>> \o written
          ELSE written = <<>> /\ output_csv.rows = <<>>)
    /\ [][/\ Len(output_csv.rows) <= Len(output_csv.rows')
          /\ SubSeq(output_csv.rows', 1, Len(output_csv.rows)) = output_csv.rows]_vars

\* C28 witness: two calls in two runs: the first created the file
C28_Witness ==
    /\ runs = 2
    /\ Len(written) = 2
    /\ Len(appended) = 1
    /\ Len(output_csv.rows) = 3
    /\ output_csv.rows[1] = Fieldnames(configured_judges)

====
